---- MODULE Spec2Model ----
(***************************************************************************)
(* Model of the ChatGLM2 attention forward pass of                         *)
(* python/llm/src/bigdl/llm/transformers/models/chatglm.py:                *)
(*   chatglm_attention_forward_8eb45c  (projection split, multi-query      *)
(*       head broadcast, growable per-layer KV cache, returned handle)    *)
(*   cross_attn_forward_8eb45c         (fused and manual attention core)   *)
(*                                                                         *)
(* Tensors of the layer are followed on their time axis: one buffer slot   *)
(* holds the key (value) written there for batch row 0 / head 0, and the   *)
(* tensor's shape is carried beside it.  The head broadcaster is modelled  *)
(* on whole tensors (shape + row-major data).                              *)
(***************************************************************************)
EXTENDS Integers, Sequences, FiniteSets, TLC

\* ------------------------------------------------------------ constants

KV_CACHE_ALLOC_BLOCK_LENGTH == 256
KV_CACHE_ALLOC_MIN_LENGTH == 512

\* ------------------------------------------------------------ bounds

\* forward calls of one generation session (Spec)
MaxCalls == 3
\* tokens fed one at a time (SpecStream)
MaxStream == 772
\* query / key lengths given to the attention core alone (SpecCore)
MaxQLen == 3
MaxKLen == 3
\* head counts, group counts and extents of the broadcaster's input (SpecBroadcast)
\* batch sizes and prompt lengths of a first call (SpecFirst)
MaxBatch == 2
MaxPrompt == 3
MaxHeads == 4
MaxGroups == 3
MaxExtent == 2

\* cur_length of a call of a session: one token, a block, a block plus one, and
\* a prompt longer than KV_CACHE_ALLOC_MIN_LENGTH
CurLens == {1, KV_CACHE_ALLOC_BLOCK_LENGTH, KV_CACHE_ALLOC_BLOCK_LENGTH + 1,
            KV_CACHE_ALLOC_MIN_LENGTH + 88}
\* what distinguishes the hidden states of two calls
Seeds == {0, 1}

\* ------------------------------------------------------------ helpers

Max(a, b) == IF a >= b THEN a ELSE b

CeilDiv(a, b) == (a + b - 1) \div b

RECURSIVE Prod(_)
Prod(s) == IF Len(s) = 0 THEN 1 ELSE Head(s) * Prod(Tail(s))

\* content of a slot that torch.empty allocated and nothing has written
Uninit == 0

\* key and value of the token at (1-based) position p of a session whose call
\* drew `seed`, as head h sees it
KeyOf(seed, p, h) == 100 * p + 10 * h + seed + 1
ValueOf(seed, p, h) == -(100 * p + 10 * h + seed + 1)
ElemOf(which, seed, p, h) == IF which = "k" THEN KeyOf(seed, p, h) ELSE ValueOf(seed, p, h)

\* ------------------------------------------------------------ tensors
\* A tensor is its shape and its elements in row-major (contiguous) order.
\* Dimensions and coordinates are numbered from 0 as in the source; the
\* sequences holding them are 1-based.

Numel(shape) == Prod(shape)

Stride(shape, k) == Prod(SubSeq(shape, k + 2, Len(shape)))

\* coordinate k of the element at row-major offset off
Coord(shape, off, k) == (off \div Stride(shape, k)) % shape[k + 1]

RECURSIVE OffsetFrom(_, _, _)
OffsetFrom(shape, idx, k) ==
    IF k >= Len(shape) THEN 0
    ELSE idx[k + 1] * Stride(shape, k) + OffsetFrom(shape, idx, k + 1)

Offset(shape, idx) == OffsetFrom(shape, idx, 0)

Elem(t, idx) == t.data[Offset(t.shape, idx) + 1]

NoTensor == [shape |-> <<>>, data |-> <<>>]

\* tensor.permute(*perm): dimension k of the result is dimension perm[k] of t
Permute(t, perm) ==
    LET ns == [k \in 1..Len(perm) |-> t.shape[perm[k] + 1]]
        src(off) == [j \in 1..Len(perm) |->
                        Coord(ns, off, (CHOOSE k \in 1..Len(perm) : perm[k] = j - 1) - 1)]
    IN [shape |-> ns,
        data  |-> [o \in 1..Numel(ns) |-> Elem(t, src(o - 1))]]

\* tensor.unsqueeze(dim) for a negative dim: a new dimension of size 1 at
\* position Len(shape) + 1 + dim
Unsqueeze(t, dim) ==
    LET at == Len(t.shape) + 1 + dim
    IN [shape |-> [k \in 1..(Len(t.shape) + 1) |->
                      IF k - 1 < at THEN t.shape[k]
                      ELSE IF k - 1 = at THEN 1 ELSE t.shape[k - 1]],
        data  |-> t.data]

\* tensor.expand(-1, .., r, .., -1).contiguous(): dimension dim, of size 1,
\* replicated r times and materialised
ExpandContiguous(t, dim, r) ==
    LET ns == [k \in 1..Len(t.shape) |-> IF k - 1 = dim THEN r ELSE t.shape[k]]
        src(off) == [k \in 1..Len(ns) |-> IF k - 1 = dim THEN 0 ELSE Coord(ns, off, k - 1)]
    IN [shape |-> ns,
        data  |-> [o \in 1..Numel(ns) |-> Elem(t, src(o - 1))]]

\* tensor.view(shape): the same elements under another shape; an error when
\* the element counts differ
ViewOk(t, shape) == Numel(t.shape) = Numel(shape)

View(t, shape) == [shape |-> shape, data |-> t.data]

\* ------------------------------------------------------------ head broadcaster
\* key_layer / value_layer of multi-query attention, lines 127-141:
\*   x.permute(1, 2, 0, 3).unsqueeze(-3).expand(-1, -1, np // ng, -1, -1)
\*    .contiguous().view((batch_size, np, key_length, hn))

\* unsqueeze at the wrong place: the copies of all groups follow each other
BroadcastExpand_tiled(permuted, r) ==
    ExpandContiguous(Unsqueeze(permuted, -4), 1, r)

\* .unsqueeze(-3).expand(-1, -1, r, -1, -1).contiguous(): [b, ng, r, sl, hn]
BroadcastExpand(permuted, r) ==
    ExpandContiguous(Unsqueeze(permuted, -3), 2, r)

Broadcast(x, np, ng, batch_size, hn) ==
    LET key_length == x.shape[1]
        permuted   == Permute(x, <<1, 2, 0, 3>>)
        expanded   == BroadcastExpand(permuted, np \div ng)
        target     == <<batch_size, np, key_length, hn>>
    IN IF ViewOk(expanded, target)
       THEN [ok |-> TRUE, t |-> View(expanded, target)]
       ELSE [ok |-> FALSE, t |-> NoTensor]

\* shape of the broadcaster's result alone
BroadcastShapeOk(np, ng) == ng * (np \div ng) = np

\* ------------------------------------------------------------ attention core
\* cross_attn_forward_8eb45c, lines 193-282.  A mask is a function from
\* <<query position, key position>> (0-based) to BOOLEAN, TRUE = blocked.

NoMask == [present |-> FALSE, m |-> <<>>]

Pairs(sq, sk) == (0..(sq - 1)) \X (0..(sk - 1))

\* ~mask
Invert(m) == [p \in DOMAIN m |-> ~m[p]]

\* torch.ones(..).tril_(): kept on and below the diagonal
Tril_strict(i, j) == j < i

Tril(i, j) == j <= i

\* line 195: the fused path is taken for more than one query position on
\* torch >= 2
UseFused(sq, major) == sq > 1 /\ major >= 2

\* torch.nn.functional.scaled_dot_product_attention: is_causal keeps the lower
\* triangle, a boolean attn_mask keeps where it is TRUE; the rest gets -inf
SdpaBlocked(is_causal, keep, i, j) ==
    IF is_causal THEN ~Tril(i, j)
    ELSE IF keep.present THEN ~keep.m[<<i, j>>]
    ELSE FALSE

\* lines 197-204
FusedBlocked(mask, sq, sk, i, j) ==
    IF ~mask.present /\ sq = sk
    THEN SdpaBlocked(TRUE, NoMask, i, j)
    ELSE IF mask.present
         THEN SdpaBlocked(FALSE, [present |-> TRUE, m |-> Invert(mask.m)], i, j)
         ELSE SdpaBlocked(FALSE, NoMask, i, j)

\* line 246: a causal mask is synthesized when none is given and the scores
\* are square
SynthesizeCausal(mask, sq, sk) == ~mask.present /\ sq = sk

\* lines 246-252: masked_fill(attention_mask, -inf)
ManualBlocked(mask, sq, sk, i, j) ==
    IF SynthesizeCausal(mask, sq, sk)
    THEN ~Tril(i, j)
    ELSE IF mask.present THEN mask.m[<<i, j>>]
    ELSE FALSE

\* the score of <<i, j>> is -inf before the softmax, so its weight is exactly 0
CoreBlocked(major, mask, sq, sk, i, j) ==
    IF UseFused(sq, major) THEN FusedBlocked(mask, sq, sk, i, j)
    ELSE ManualBlocked(mask, sq, sk, i, j)

CorePath(sq, major) == IF UseFused(sq, major) THEN "fused" ELSE "manual"

\* the factor applied to q.k^T, as a fraction <<numerator, denominator>>.
\* head dimensions are perfect squares so that sqrt(hn) is an integer.
Sqrt(n) == CHOOSE r \in 0..n : r * r = n

\* scaled_dot_product_attention's default scale, 1 / sqrt(query.size(-1))
FusedScale(hn) == <<1, Sqrt(hn)>>

\* lines 226-232 and 244-245: alpha = 1 / norm_factor, then * coeff when
\* one is configured (coeff = 0 stands for None)
ManualScale(norm_factor, coeff) ==
    <<IF coeff # 0 THEN coeff ELSE 1, norm_factor>>

SameScale(a, b) == a[1] * b[2] = b[1] * a[2]

CoreScale(major, sq, hn, norm_factor, coeff) ==
    IF UseFused(sq, major) THEN FusedScale(hn) ELSE ManualScale(norm_factor, coeff)

\* ------------------------------------------------------------ state

VARIABLES
    cfg,              \* the layer's configuration: multi_query_attention,
                      \* np (num_attention_heads_per_partition),
                      \* ng (num_multi_query_groups_per_partition),
                      \* hn (hidden_size_per_attention_head)
    batch_size,       \* batch size of the session's hidden states
    major,            \* pytorch_major_version
    max_cache_length, \* self.max_cache_length (0: not set yet)
    self_kv_cache,    \* self.kv_cache: the layer's key and value buffers
    kv_cache,         \* the handle the caller holds, passed as kv_cache
    appendedK,        \* keys of every token of the session, in order
    appendedV,        \* values of every token of the session, in order
    fed,              \* sum of cur_length over the calls of the session
    reallocs,         \* executions of the reallocation branch in the session
    calls,            \* forward calls of the session
    last,             \* what the last forward call did
    core,             \* input and result of the attention core called alone
    bc                \* input and result of the head broadcaster called alone

vars == <<cfg, batch_size, major, max_cache_length, self_kv_cache, kv_cache,
          appendedK, appendedV, fed, reallocs, calls, last, core, bc>>

\* ------------------------------------------------------------ layer pipeline
\* A layer tensor: its shape, and its elements along dimension 2 (the cache's
\* time axis) at batch row 0 / head 0.  base tells whose memory it reads:
\* "own" holds its elements in seq, "k" and "v" are views of the first
\* shape[3] slots of the layer's key and value buffer.

NoLayerTensor == [base |-> "own", shape |-> <<>>, seq |-> <<>>]

NoBuffer == [allocated |-> FALSE, id |-> 0, shape |-> <<>>, k |-> <<>>, v |-> <<>>]

NoHandle == [present |-> FALSE, k |-> NoLayerTensor, v |-> NoLayerTensor]

NoCall == [op |-> "none", ok |-> TRUE, error |-> "", cur |-> 0, past |-> 0,
           use_cache |-> FALSE, realloc |-> FALSE, old_cap |-> 0, old_id |-> 0,
           query_shape |-> <<>>, key_layer |-> NoLayerTensor,
           value_layer |-> NoLayerTensor, path |-> "", output_shape |-> <<>>]

\* lines 89-117: query_layer is [sq, b, np, hn]
QueryShape(cur) == <<cur, batch_size, cfg.np, cfg.hn>>

\* lines 91-117: key_layer and value_layer after the split are
\* [sq, b, ng, hn] (multi-query) or [sq, b, np, hn] (uniform)
SplitShape(cur) ==
    <<cur, batch_size, IF cfg.multi_query_attention THEN cfg.ng ELSE cfg.np, cfg.hn>>

\* lines 126-141: in multi-query mode key_layer / value_layer become
\* [b, np, sl, hn]; in uniform mode they stay [sq, b, np, hn], whose
\* dimension 2 is the head axis.  which is "k" or "v".
Projected(which, cur, seed, past) ==
    IF cfg.multi_query_attention
    THEN IF BroadcastShapeOk(cfg.np, cfg.ng)
         THEN [ok |-> TRUE,
               t  |-> [base  |-> "own",
                       shape |-> <<batch_size, cfg.np, SplitShape(cur)[1], cfg.hn>>,
                       seq   |-> [t \in 1..cur |-> ElemOf(which, seed, past + t, 0)]]]
         ELSE [ok |-> FALSE, t |-> NoLayerTensor]
    ELSE [ok |-> TRUE,
          t  |-> [base  |-> "own",
                  shape |-> SplitShape(cur),
                  seq   |-> [h \in 1..cfg.np |-> ElemOf(which, seed, past + 1, h - 1)]]]

\* dst[...] = src: src is broadcast to dst's shape; each dimension of src is
\* dst's or 1
CanAssign(dst, src) ==
    /\ Len(src) <= Len(dst)
    /\ \A k \in 1..Len(src) :
          LET d == dst[Len(dst) - Len(src) + k]
          IN src[k] = d \/ src[k] = 1

\* torch.empty(batch_size, np, max_cache_length, hn)
EmptyBuffer(cap) == [t \in 1..cap |-> Uninit]

\* src broadcast to n slots: a single element is repeated
Broadcasted(src, n) ==
    IF Len(src) = 1 THEN [t \in 1..n |-> src[1]] ELSE SubSeq(src, 1, n)

\* buf[:, :, from:from+n, :] = src, on the time axis
WriteSlice(buf, from, n, src) ==
    IF n = 0 THEN buf
    ELSE SubSeq(buf, 1, from) \o Broadcasted(src, n) \o SubSeq(buf, from + n + 1, Len(buf))

\* the elements a layer tensor reads, given the layer's buffers
Elems(t, buf) ==
    IF t.base = "k" THEN SubSeq(buf.k, 1, t.shape[3])
    ELSE IF t.base = "v" THEN SubSeq(buf.v, 1, t.shape[3])
    ELSE t.seq

\* lines 163-164
FirstCapacity(cur) == Max(KV_CACHE_ALLOC_MIN_LENGTH, cur) + KV_CACHE_ALLOC_BLOCK_LENGTH

NeedRealloc_always(past_length, cur_length, cap) == past_length + cur_length > past_length

NeedRealloc_inclusive(past_length, cur_length, cap) == past_length + cur_length >= cap

\* line 148
NeedRealloc(past_length, cur_length, cap) == past_length + cur_length > cap

GrownCapacity_exact(past_length, cur_length) == past_length + cur_length

\* line 149
GrownCapacity(past_length, cur_length) ==
    past_length + cur_length + KV_CACHE_ALLOC_BLOCK_LENGTH

\* lines 154-155: the old valid region [0, past_length) is copied
CopyLength(past_length) == past_length

\* lines 156-157: the new tokens go to [past_length, past_length + cur_length)
WriteStart(past_length) == past_length

ValidLength_window(past_length, cur_length) == cur_length

\* lines 159-160: key_layer / value_layer become the buffers' [0, past + cur)
ValidLength(past_length, cur_length) == past_length + cur_length

\* the core's operands must agree on batch, heads and head size: q is
\* permuted to (or viewed as) [b, np, sq, hn] against k, v [b, np, sk, hn]
CoreShapeOk(q, k, v) ==
    /\ Len(k) = 4 /\ Len(v) = 4
    /\ k[1] = q[2] /\ k[2] = q[3] /\ k[4] = q[4]
    /\ v = k

\* lines 205-207 / 277-280, then self.dense: [sq, b, np * hn]
OutputShape(q) == <<q[1], q[2], q[3] * q[4]>>

Min(a, b) == IF a <= b THEN a ELSE b

\* extent of x[from:to] on a dimension of extent dim
SliceLen(from, to, dim) == Max(0, Min(to, dim) - Min(from, dim))

\* keys / values of the cur tokens a call appends after n earlier ones
TokenKeys(seed, n, cur) == [t \in 1..cur |-> KeyOf(seed, n + t, 0)]
TokenValues(seed, n, cur) == [t \in 1..cur |-> ValueOf(seed, n + t, 0)]

Failed(op, error, cur, past, use_cache, realloc) ==
    [NoCall EXCEPT !.op = op, !.ok = FALSE, !.error = error, !.cur = cur,
                   !.past = past, !.use_cache = use_cache, !.realloc = realloc,
                   !.old_cap = max_cache_length, !.old_id = self_kv_cache.id]

\* lines 182-190: the core is given query_layer, key_layer, value_layer and
\* the call returns (output, kv_cache)
Attend(op, cur, past, use_cache, realloc, key_layer, value_layer) ==
    IF CoreShapeOk(QueryShape(cur), key_layer.shape, value_layer.shape)
    THEN [NoCall EXCEPT !.op = op, !.cur = cur, !.past = past,
                        !.use_cache = use_cache, !.realloc = realloc,
                        !.old_cap = max_cache_length, !.old_id = self_kv_cache.id,
                        !.query_shape = QueryShape(cur),
                        !.key_layer = key_layer, !.value_layer = value_layer,
                        !.path = CorePath(cur, major),
                        !.output_shape = OutputShape(QueryShape(cur))]
    ELSE Failed(op, "core", cur, past, use_cache, realloc)

\* chatglm_attention_forward_8eb45c with kv_cache = None and use_cache = True:
\* lines 89-141, 162-170, 173-190
FirstResult(cur, seed) ==
    LET k     == Projected("k", cur, seed, 0)
        v     == Projected("v", cur, seed, 0)
        cap   == FirstCapacity(cur)
        shape == <<batch_size, cfg.np, cap, cfg.hn>>
        slice == <<batch_size, cfg.np, SliceLen(0, cur, cap), cfg.hn>>
        empty == [allocated |-> TRUE, id |-> 1, shape |-> shape,
                  k |-> EmptyBuffer(cap), v |-> EmptyBuffer(cap)]
        keep  == [cap |-> max_cache_length, buf |-> self_kv_cache, handle |-> kv_cache]
    IN IF ~k.ok
       THEN [keep EXCEPT !.handle = NoHandle] @@ [call |-> Failed("first", "view", cur, 0, TRUE, FALSE)]
       ELSE IF ~CanAssign(slice, k.t.shape)
       THEN [cap |-> cap, buf |-> empty, handle |-> NoHandle,
             call |-> Failed("first", "copy", cur, 0, TRUE, FALSE)]
       ELSE LET buf  == [empty EXCEPT !.k = WriteSlice(@, 0, slice[3], k.t.seq),
                                      !.v = WriteSlice(@, 0, slice[3], v.t.seq)]
                call == Attend("first", cur, 0, TRUE, FALSE, k.t, v.t)
            IN [cap |-> cap, buf |-> buf,
                handle |-> IF call.ok
                           THEN [present |-> TRUE, k |-> k.t, v |-> v.t]
                           ELSE NoHandle,
                call |-> call]

\* chatglm_attention_forward_8eb45c with a kv_cache: lines 89-160, 173-190
AppendResult(cur, seed, use_cache) ==
    LET n       == Len(appendedK)
        k       == Projected("k", cur, seed, n)
        v       == Projected("v", cur, seed, n)
        past    == kv_cache.k.shape[3]
        realloc == NeedRealloc(past, cur, max_cache_length)
        cap     == IF realloc THEN GrownCapacity(past, cur) ELSE max_cache_length
        shape   == <<batch_size, cfg.np, cap, cfg.hn>>
        empty   == [allocated |-> TRUE, id |-> self_kv_cache.id + 1, shape |-> shape,
                    k |-> EmptyBuffer(cap), v |-> EmptyBuffer(cap)]
        old     == <<batch_size, cfg.np, SliceLen(0, CopyLength(past), cap), cfg.hn>>
        copied  == IF realloc
                   THEN [empty EXCEPT
                            !.k = WriteSlice(@, 0, old[3], Elems(kv_cache.k, self_kv_cache)),
                            !.v = WriteSlice(@, 0, old[3], Elems(kv_cache.v, self_kv_cache))]
                   ELSE self_kv_cache
        start   == WriteStart(past)
        slice   == <<batch_size, cfg.np, SliceLen(start, start + cur, cap), cfg.hn>>
        written == [copied EXCEPT !.k = WriteSlice(@, start, slice[3], k.t.seq),
                                  !.v = WriteSlice(@, start, slice[3], v.t.seq)]
        valid   == SliceLen(0, ValidLength(past, cur), cap)
        key_layer   == [base |-> "k", shape |-> <<batch_size, cfg.np, valid, cfg.hn>>,
                        seq  |-> <<>>]
        value_layer == [base |-> "v", shape |-> <<batch_size, cfg.np, valid, cfg.hn>>,
                        seq  |-> <<>>]
        keep    == [cap |-> max_cache_length, buf |-> self_kv_cache, handle |-> kv_cache]
    IN IF ~k.ok
       THEN keep @@ [call |-> Failed("append", "view", cur, past, use_cache, FALSE)]
       ELSE IF realloc /\ ~CanAssign(old, kv_cache.k.shape)
       THEN [cap |-> cap, buf |-> empty, handle |-> kv_cache,
             call |-> Failed("append", "copy", cur, past, use_cache, realloc)]
       ELSE IF ~CanAssign(slice, k.t.shape)
       THEN [cap |-> cap, buf |-> copied, handle |-> kv_cache,
             call |-> Failed("append", "copy", cur, past, use_cache, realloc)]
       ELSE LET call == Attend("append", cur, past, use_cache, realloc,
                               key_layer, value_layer)
            IN [cap |-> cap, buf |-> written,
                handle |-> IF ~call.ok THEN kv_cache
                           ELSE IF use_cache
                           THEN [present |-> TRUE, k |-> key_layer, v |-> value_layer]
                           ELSE NoHandle,
                call |-> call]

\* ------------------------------------------------------------ actions

\* the first forward call of a session: no handle, use_cache = True
ForwardFirst(cur, seed) ==
    /\ ~kv_cache.present
    /\ LET r == FirstResult(cur, seed)
       IN /\ max_cache_length' = r.cap
          /\ self_kv_cache' = r.buf
          /\ kv_cache' = r.handle
          /\ last' = r.call
          /\ appendedK' = IF r.call.ok THEN TokenKeys(seed, 0, cur) ELSE <<>>
          /\ appendedV' = IF r.call.ok THEN TokenValues(seed, 0, cur) ELSE <<>>
    /\ fed' = cur
    /\ reallocs' = 0
    /\ calls' = 1
    /\ UNCHANGED <<cfg, batch_size, major, core, bc>>

\* a later forward call, given the handle the previous call returned
ForwardAppend(cur, seed, use_cache) ==
    /\ kv_cache.present
    /\ LET r == AppendResult(cur, seed, use_cache)
       IN /\ max_cache_length' = r.cap
          /\ self_kv_cache' = r.buf
          /\ kv_cache' = r.handle
          /\ last' = r.call
          /\ appendedK' = IF r.call.ok
                          THEN appendedK \o TokenKeys(seed, Len(appendedK), cur)
                          ELSE appendedK
          /\ appendedV' = IF r.call.ok
                          THEN appendedV \o TokenValues(seed, Len(appendedV), cur)
                          ELSE appendedV
          /\ reallocs' = IF r.call.realloc THEN reallocs + 1 ELSE reallocs
    /\ fed' = fed + cur
    /\ calls' = calls + 1
    /\ UNCHANGED <<cfg, batch_size, major, core, bc>>

\* ------------------------------------------------------------ Spec: sessions
\* One generation session of one layer: a first call, then calls that pass
\* the handle the previous call returned.  The layer is new, or still holds
\* what an earlier session left on it.

IdleCore == [phase |-> "none"]
IdleBc == [phase |-> "none"]

MultiQueryCfg == [multi_query_attention |-> TRUE, np |-> 2, ng |-> 1, hn |-> 4]
UniformCfg == [multi_query_attention |-> FALSE, np |-> 2, ng |-> 2, hn |-> 4]
UniformOneHeadCfg == [multi_query_attention |-> FALSE, np |-> 1, ng |-> 1, hn |-> 4]

NewLayer == [cap |-> 0, buf |-> NoBuffer]

\* the layer after an earlier session: in multi-query mode a first call of
\* KV_CACHE_ALLOC_MIN_LENGTH + 88 tokens and a reallocating append of
\* KV_CACHE_ALLOC_BLOCK_LENGTH + 1; in uniform mode a first call that failed
UsedLayer(c) ==
    LET first == KV_CACHE_ALLOC_MIN_LENGTH + 88
        n     == first + KV_CACHE_ALLOC_BLOCK_LENGTH + 1
        cap   == IF c.multi_query_attention
                 THEN n + KV_CACHE_ALLOC_BLOCK_LENGTH
                 ELSE first + KV_CACHE_ALLOC_BLOCK_LENGTH
        used  == IF c.multi_query_attention THEN n ELSE 0
    IN [cap |-> cap,
        buf |-> [allocated |-> TRUE,
                 id        |-> IF c.multi_query_attention THEN 2 ELSE 1,
                 shape     |-> <<1, c.np, cap, c.hn>>,
                 k |-> [t \in 1..cap |-> IF t <= used THEN KeyOf(1, t, 0) ELSE Uninit],
                 v |-> [t \in 1..cap |-> IF t <= used THEN ValueOf(1, t, 0) ELSE Uninit]]]

SessionInit(layers) ==
    /\ \E layer \in layers :
          /\ max_cache_length = layer.cap
          /\ self_kv_cache = layer.buf
    /\ kv_cache = NoHandle
    /\ appendedK = <<>>
    /\ appendedV = <<>>
    /\ fed = 0
    /\ reallocs = 0
    /\ calls = 0
    /\ last = NoCall

Init ==
    /\ cfg \in {MultiQueryCfg, UniformCfg, UniformOneHeadCfg}
    /\ batch_size = 1
    /\ major \in {1, 2}
    /\ SessionInit({NewLayer, UsedLayer(cfg)})
    /\ core = IdleCore
    /\ bc = IdleBc

SessionFirst ==
    /\ calls = 0
    /\ \E cur \in CurLens, seed \in Seeds : ForwardFirst(cur, seed)

SessionAppend ==
    /\ calls < MaxCalls
    /\ \E cur \in CurLens, seed \in Seeds, use_cache \in BOOLEAN :
          ForwardAppend(cur, seed, use_cache)

Next == SessionFirst \/ SessionAppend

Spec == Init /\ [][Next]_vars

\* ------------------------------------------------------------ SpecStream
\* One session fed one token per call.

\* every token of the stream comes from hidden states of the same kind
StreamSeed == CHOOSE seed \in Seeds : \A other \in Seeds : seed <= other

StreamInit ==
    /\ cfg \in {MultiQueryCfg, UniformOneHeadCfg}
    /\ batch_size = 1
    /\ major \in {1, 2}
    /\ SessionInit({NewLayer})
    /\ core = IdleCore
    /\ bc = IdleBc

StreamFirst ==
    /\ calls = 0
    /\ ForwardFirst(1, StreamSeed)

StreamAppend ==
    /\ Len(appendedK) < MaxStream
    /\ ForwardAppend(1, StreamSeed, TRUE)

StreamNext == StreamFirst \/ StreamAppend

SpecStream == StreamInit /\ [][StreamNext]_vars

\* ------------------------------------------------------------ SpecFirst
\* The first call of a session, over layer configurations and input shapes.

FirstCfgs ==
    {[multi_query_attention |-> TRUE, np |-> n, ng |-> g, hn |-> h] :
        n \in {1, 2, 4}, g \in {1, 2}, h \in {4, 8}}
    \cup
    {[multi_query_attention |-> FALSE, np |-> n, ng |-> n, hn |-> h] :
        n \in {1, 2, 4}, h \in {4, 8}}

FirstInit ==
    /\ cfg \in FirstCfgs
    /\ batch_size \in 1..MaxBatch
    /\ major \in {1, 2}
    /\ SessionInit({NewLayer})
    /\ core = IdleCore
    /\ bc = IdleBc

FirstNext ==
    /\ calls = 0
    /\ \E cur \in 1..MaxPrompt, seed \in Seeds : ForwardFirst(cur, seed)

SpecFirst == FirstInit /\ [][FirstNext]_vars

\* ------------------------------------------------------------ SpecCore
\* cross_attn_forward_8eb45c alone, on the same operands under torch 2.x and
\* under torch 1.x.  norm_factor and coeff are attributes the layer is built
\* with: norm_factor is sqrt(hn), or sqrt(hn) * coeff when coeff is set.

Masks(sq, sk) ==
    {NoMask} \cup {[present |-> TRUE, m |-> m] : m \in [Pairs(sq, sk) -> BOOLEAN]}

HeadDims == {1, 4}
Coeffs == {0, 1, 2}

NoRun == [path |-> "", blocked |-> <<>>, scale |-> <<0, 1>>]

\* one run of the core: the path taken, the positions whose score is -inf,
\* and the factor applied to the raw scores
CoreRun(in, torch) ==
    [path    |-> CorePath(in.sq, torch),
     blocked |-> [p \in Pairs(in.sq, in.sk) |->
                     CoreBlocked(torch, in.mask, in.sq, in.sk, p[1], p[2])],
     scale   |-> CoreScale(torch, in.sq, in.hn, in.norm_factor, in.coeff)]

CoreInit ==
    /\ \E sq \in 1..MaxQLen, sk \in 1..MaxKLen, hn \in HeadDims, c \in Coeffs :
          \E mask \in Masks(sq, sk), nf \in {Sqrt(hn), Sqrt(hn) * Max(c, 1)} :
              core = [phase |-> "in", sq |-> sq, sk |-> sk, mask |-> mask, hn |-> hn,
                      norm_factor |-> nf, coeff |-> c,
                      torch2 |-> NoRun, torch1 |-> NoRun]
    /\ cfg = MultiQueryCfg
    /\ batch_size = 1
    /\ major = 2
    /\ SessionInit({NewLayer})
    /\ bc = IdleBc

CoreForward ==
    /\ core.phase = "in"
    /\ core' = [core EXCEPT !.phase = "out",
                            !.torch2 = CoreRun(core, 2),
                            !.torch1 = CoreRun(core, 1)]
    /\ UNCHANGED <<cfg, batch_size, major, max_cache_length, self_kv_cache, kv_cache,
                   appendedK, appendedV, fed, reallocs, calls, last, bc>>

SpecCore == CoreInit /\ [][CoreForward]_vars

\* ------------------------------------------------------------ SpecBroadcast
\* The head broadcaster alone, on a key (or value) tensor [sl, b, ng, hn]
\* whose elements are all different.

BroadcastInit ==
    /\ \E np \in 1..MaxHeads, ng \in 1..MaxGroups, sl \in 1..MaxExtent,
          b \in 1..MaxExtent, hn \in 1..MaxExtent, seed \in Seeds :
          bc = [phase |-> "in", np |-> np, ng |-> ng, batch_size |-> b, hn |-> hn,
                x |-> [shape |-> <<sl, b, ng, hn>>,
                       data  |-> [o \in 1..(sl * b * ng * hn) |-> 10 * o + seed]],
                out |-> [ok |-> FALSE, t |-> NoTensor]]
    /\ cfg = MultiQueryCfg
    /\ batch_size = 1
    /\ major = 2
    /\ SessionInit({NewLayer})
    /\ core = IdleCore

BroadcastHeads ==
    /\ bc.phase = "in"
    /\ bc' = [bc EXCEPT !.phase = "out",
                        !.out = Broadcast(bc.x, bc.np, bc.ng, bc.batch_size, bc.hn)]
    /\ UNCHANGED <<cfg, batch_size, major, max_cache_length, self_kv_cache, kv_cache,
                   appendedK, appendedV, fed, reallocs, calls, last, core>>

SpecBroadcast == BroadcastInit /\ [][BroadcastHeads]_vars

\* ------------------------------------------------------------ claims: the cache

Called == last.op # "none"

Appended == last.op = "append"

\* C1: in a session, after every call the layer's capacity is at least the
\* number of tokens appended so far (and at least past_length + cur_length
\* of a call that succeeded), and a call with a cache present that changes
\* the capacity raises it by at least KV_CACHE_ALLOC_BLOCK_LENGTH.
C1_CapacityCoversTokens ==
    Called =>
        /\ max_cache_length >= Len(appendedK)
        /\ last.ok => last.past + last.cur <= max_cache_length
        /\ (Appended /\ max_cache_length # last.old_cap) =>
              max_cache_length >= last.old_cap + KV_CACHE_ALLOC_BLOCK_LENGTH

\* a session that reallocated twice, the second time from a grown buffer
C1_Witness ==
    /\ Appended /\ last.ok /\ last.realloc
    /\ reallocs = 2
    /\ max_cache_length > last.old_cap
    /\ Len(appendedK) > KV_CACHE_ALLOC_MIN_LENGTH + KV_CACHE_ALLOC_BLOCK_LENGTH

\* C2: after every call that succeeded, the keys and values given to the
\* attention core are the buffers' slots [0, past_length + cur_length), and
\* these are, slot by slot, the keys and values of all tokens of the session.
C2_CoreGetsAllTokens ==
    (Called /\ last.ok) =>
        /\ last.past + last.cur = Len(appendedK)
        /\ Elems(last.key_layer, self_kv_cache)
              = SubSeq(self_kv_cache.k, 1, last.past + last.cur)
        /\ Elems(last.value_layer, self_kv_cache)
              = SubSeq(self_kv_cache.v, 1, last.past + last.cur)
        /\ Elems(last.key_layer, self_kv_cache) = appendedK
        /\ Elems(last.value_layer, self_kv_cache) = appendedV

\* C2 for the layout the cache is written for (multi-query: key_layer is
\* [b, np, sl, hn] when it reaches the cache)
C2_MultiQueryCoreGetsAllTokens ==
    cfg.multi_query_attention => C2_CoreGetsAllTokens

C2_MultiQueryWitness ==
    /\ cfg.multi_query_attention
    /\ Appended /\ last.ok /\ last.realloc /\ reallocs = 2

\* C4 as claimed: after a call with a cache present and use_cache, the
\* returned handle is the window of the cur_length new keys and values only.
C4_HandleIsNewWindow ==
    (Appended /\ last.ok /\ last.use_cache /\ last.past > 0) =>
        /\ kv_cache.present
        /\ kv_cache.k.shape[3] = last.cur
        /\ kv_cache.v.shape[3] = last.cur
        /\ Elems(kv_cache.k, self_kv_cache)
              = SubSeq(self_kv_cache.k, last.past + 1, last.past + last.cur)
        /\ Elems(kv_cache.v, self_kv_cache)
              = SubSeq(self_kv_cache.v, last.past + 1, last.past + last.cur)

\* C4 as the code has it: after a call with a cache present and use_cache,
\* the returned handle is the pair of views [0, past_length + cur_length) of
\* the layer's buffers, the tensors that were given to the attention core;
\* the buffers themselves, of max_cache_length slots, stay on the layer.
C4_HandleIsValidRegion ==
    (Appended /\ last.ok /\ last.use_cache /\ last.past > 0) =>
        /\ kv_cache.present
        /\ kv_cache.k = last.key_layer
        /\ kv_cache.v = last.value_layer
        /\ kv_cache.k.shape = <<batch_size, cfg.np, last.past + last.cur, cfg.hn>>
        /\ kv_cache.v.shape = <<batch_size, cfg.np, last.past + last.cur, cfg.hn>>
        /\ Elems(kv_cache.k, self_kv_cache) = SubSeq(self_kv_cache.k, 1, last.past + last.cur)
        /\ Elems(kv_cache.v, self_kv_cache) = SubSeq(self_kv_cache.v, 1, last.past + last.cur)
        /\ Len(self_kv_cache.k) = max_cache_length
        /\ max_cache_length >= last.past + last.cur

C4_Witness ==
    /\ Appended /\ last.ok /\ last.use_cache
    /\ last.past > last.cur /\ last.cur > 1
    /\ kv_cache.present
    /\ max_cache_length > last.past + last.cur

\* C7: in a session, the reallocation branch has run at most
\* ceil(total_new_tokens / KV_CACHE_ALLOC_BLOCK_LENGTH) times, where
\* total_new_tokens is the sum of cur_length over the session's calls.
C7_ReallocationsBounded ==
    reallocs <= CeilDiv(fed, KV_CACHE_ALLOC_BLOCK_LENGTH)

C7_Witness ==
    /\ Appended /\ last.realloc
    /\ reallocs = 2
    /\ fed = Len(appendedK)

\* C9: a call with a cache present and past_length + cur_length within the
\* capacity keeps the capacity and the buffers, and changes no slot outside
\* [past_length, past_length + cur_length); a call with a cache present
\* changes the capacity only when past_length + cur_length exceeds it.
C9_AppendWithinCapacityFrame ==
    [][(kv_cache.present /\ calls' = calls + 1) =>
          LET past == last'.past
              cur  == last'.cur
          IN /\ past + cur <= max_cache_length =>
                  /\ max_cache_length' = max_cache_length
                  /\ self_kv_cache'.id = self_kv_cache.id
                  /\ self_kv_cache'.shape = self_kv_cache.shape
                  /\ ~last'.realloc
                  /\ \A t \in 1..max_cache_length :
                        (t <= past \/ t > past + cur) =>
                            /\ self_kv_cache'.k[t] = self_kv_cache.k[t]
                            /\ self_kv_cache'.v[t] = self_kv_cache.v[t]
             /\ max_cache_length' # max_cache_length =>
                  past + cur > max_cache_length]_vars

\* an append that fills the buffer exactly
C9_Witness ==
    /\ Appended /\ last.ok /\ ~last.realloc
    /\ last.past > 0
    /\ last.past + last.cur = max_cache_length
    /\ max_cache_length = last.old_cap
    /\ self_kv_cache.id = last.old_id

\* ------------------------------------------------------------ claims: the first call

\* the head counts the layer can be built with
ValidHeads == cfg.multi_query_attention => cfg.np % cfg.ng = 0

\* C8: a first call (no mask, no cache, use_cache) of s tokens, batch b, np
\* heads of size hn succeeds in the uniform and in the multi-query layout,
\* returns an output [s, b, np * hn] and cache tensors [b, np, s, hn], and
\* leaves buffers of max(KV_CACHE_ALLOC_MIN_LENGTH, s) +
\* KV_CACHE_ALLOC_BLOCK_LENGTH slots whose first s slots hold the new keys
\* and values.
C8_FirstCallSucceeds ==
    (last.op = "first" /\ ValidHeads) =>
        /\ last.ok
        /\ last.output_shape = <<last.cur, batch_size, cfg.np * cfg.hn>>
        /\ kv_cache.present
        /\ kv_cache.k.shape = <<batch_size, cfg.np, last.cur, cfg.hn>>
        /\ kv_cache.v.shape = <<batch_size, cfg.np, last.cur, cfg.hn>>
        /\ max_cache_length
              = Max(KV_CACHE_ALLOC_MIN_LENGTH, last.cur) + KV_CACHE_ALLOC_BLOCK_LENGTH
        /\ self_kv_cache.shape = <<batch_size, cfg.np, max_cache_length, cfg.hn>>
        /\ SubSeq(self_kv_cache.k, 1, last.cur) = appendedK
        /\ SubSeq(self_kv_cache.v, 1, last.cur) = appendedV
        /\ Len(appendedK) = last.cur

\* C8 in the multi-query layout
C8_MultiQueryFirstCallSucceeds ==
    cfg.multi_query_attention => C8_FirstCallSucceeds

C8_MultiQueryWitness ==
    /\ last.op = "first" /\ last.ok
    /\ cfg.multi_query_attention /\ cfg.np = 2 /\ cfg.hn = 8
    /\ batch_size = 1 /\ last.cur = 3

\* ------------------------------------------------------------ claims: token by token

\* the keys (values) the query at position i attends to, by key position
AttendedBy(torch, sq, sk, i, seq) ==
    [j \in {j \in 0..(sk - 1) : ~CoreBlocked(torch, NoMask, sq, sk, i, j)} |-> seq[j + 1]]

\* one call over the tokens 1..n of the stream, with no mask and no cache
OneShot(n) == FirstResult(n, StreamSeed).call

\* C3: after T tokens fed one per call, the last token's query attends to
\* the keys and values of positions 0..T-1, in order, and so does the query
\* of position T-1 in one call over all T tokens.
C3_StreamEqualsOneShot ==
    (Called /\ last.ok) =>
        LET T    == Len(appendedK)
            full == OneShot(T)
            inc  == last
        IN /\ full.ok
           /\ AttendedBy(major, inc.cur, inc.key_layer.shape[3], inc.cur - 1,
                         Elems(inc.key_layer, self_kv_cache))
                = AttendedBy(major, T, full.key_layer.shape[3], T - 1, full.key_layer.seq)
           /\ AttendedBy(major, inc.cur, inc.value_layer.shape[3], inc.cur - 1,
                         Elems(inc.value_layer, self_kv_cache))
                = AttendedBy(major, T, full.value_layer.shape[3], T - 1, full.value_layer.seq)
           /\ AttendedBy(major, inc.cur, inc.key_layer.shape[3], inc.cur - 1,
                         Elems(inc.key_layer, self_kv_cache))
                = [j \in 0..(T - 1) |-> appendedK[j + 1]]

\* C3 in the multi-query layout
C3_MultiQueryStreamEqualsOneShot ==
    cfg.multi_query_attention => C3_StreamEqualsOneShot

C3_MultiQueryWitness ==
    /\ cfg.multi_query_attention
    /\ Appended /\ last.ok /\ last.realloc
    /\ Len(appendedK) > KV_CACHE_ALLOC_MIN_LENGTH + KV_CACHE_ALLOC_BLOCK_LENGTH

\* ------------------------------------------------------------ claims: the core

\* C5: for more than one query position, the fused path (torch 2.x) and the
\* manual path (torch 1.x) block the same <<query, key>> pairs and apply the
\* same factor to the raw scores, whatever mask, norm_factor and coeff.
C5_PathsAgree ==
    (core.phase = "out" /\ core.sq > 1) =>
        /\ core.torch2.path = "fused"
        /\ core.torch1.path = "manual"
        /\ core.torch2.blocked = core.torch1.blocked
        /\ SameScale(core.torch2.scale, core.torch1.scale)

\* C5, the masks alone
C5_PathsBlockTheSame ==
    (core.phase = "out" /\ core.sq > 1) =>
        /\ core.torch2.path = "fused"
        /\ core.torch1.path = "manual"
        /\ core.torch2.blocked = core.torch1.blocked

\* C5, the factor when norm_factor = sqrt(hn) * coeff (or no coeff is set)
C5_PathsScaleTheSame ==
    (/\ core.phase = "out" /\ core.sq > 1
     /\ core.norm_factor = Sqrt(core.hn) * Max(core.coeff, 1)) =>
        SameScale(core.torch2.scale, core.torch1.scale)

C5_PathsWitness ==
    /\ core.phase = "out" /\ core.sq = 2 /\ core.sk = 3
    /\ core.mask.present /\ core.mask.m[<<0, 2>>] /\ ~core.mask.m[<<1, 2>>]
    /\ core.coeff = 2 /\ core.norm_factor = 2 * Sqrt(core.hn)

\* C6: with no mask and as many query as key positions, on either path, the
\* weight of key j for query i is exactly 0 when j > i, and key j may be
\* attended when j <= i.
C6_CausalWithoutMask ==
    (core.phase = "out" /\ ~core.mask.present /\ core.sq = core.sk) =>
        \A run \in {core.torch2, core.torch1} :
            \A p \in Pairs(core.sq, core.sk) :
                run.blocked[p] <=> p[2] > p[1]

C6_Witness ==
    /\ core.phase = "out" /\ ~core.mask.present
    /\ core.sq = core.sk /\ core.sq >= 3
    /\ core.torch2.path = "fused" /\ core.torch1.path = "manual"
    /\ core.torch2.blocked[<<0, 1>>] /\ ~core.torch2.blocked[<<2, 1>>]

\* ------------------------------------------------------------ claims: the broadcaster

\* the query heads whose key/value is that of group g
HeadsOfGroup(g) ==
    {h \in 0..(bc.np - 1) :
        \A b \in 0..(bc.batch_size - 1), t \in 0..(bc.x.shape[1] - 1), d \in 0..(bc.hn - 1) :
            Elem(bc.out.t, <<b, h, t, d>>) = Elem(bc.x, <<t, b, g, d>>)}

\* C10: with np = r * ng the broadcaster gives query head h the key/value of
\* group h div r: the result is [b, np, sl, hn], r consecutive heads hold the
\* same tensor and each group is held by exactly r heads; when ng does not
\* divide np the broadcast fails.
C10_HeadsShareGroups ==
    bc.phase = "out" =>
        IF bc.np % bc.ng = 0
        THEN LET r == bc.np \div bc.ng
             IN /\ bc.out.ok
                /\ bc.out.t.shape = <<bc.batch_size, bc.np, bc.x.shape[1], bc.hn>>
                /\ \A h \in 0..(bc.np - 1) : h \in HeadsOfGroup(h \div r)
                /\ \A g \in 0..(bc.ng - 1) : Cardinality(HeadsOfGroup(g)) = r
        ELSE ~bc.out.ok

C10_Witness ==
    /\ bc.phase = "out" /\ bc.out.ok
    /\ bc.np = 4 /\ bc.ng = 2
    /\ bc.x.shape = <<2, 2, 2, 2>>

C10_FailureWitness ==
    /\ bc.phase = "out" /\ ~bc.out.ok
    /\ bc.np = 3 /\ bc.ng = 2

====
